---- MODULE Spec2Model ----
(***************************************************************************)
(* Toguz Kumalak front end (src/main.py): the board model ToguzBoard, the  *)
(* move ledger MoveHistory and the event loop of GameUI (board clicks,     *)
(* history-table clicks, window close).                                    *)
(*                                                                         *)
(* Python lists are modelled 0-based where the code indexes them (pits as  *)
(* a function on 0..17) and as TLA+ sequences where the code appends and   *)
(* slices them (_records).  A notation string "P:3" / "AI:12" is the pair  *)
(* <<tag, number>>.  Values are immutable here, so copy.deepcopy is the    *)
(* identity on a board value.                                              *)
(***************************************************************************)
EXTENDS Integers, Sequences, FiniteSets, TLC

VARIABLES
    board_model,   \* GameUI.board_model : the controller's current ToguzBoard
    history,       \* GameUI.history._records : sequence of MoveRecord
    last,          \* what the event loop did with the last event it handled:
                   \* ev, arg (the pit played or the row selected), popup
    ret,           \* outcome of the last direct call of MoveHistory.rewind_to
    hit            \* a direct call of GameUI._screen_to_pit: the viewport,
                   \* the pointer position and, once it returned, the result

vars == <<board_model, history, last, ret, hit>>

----------------------------------------------------------------------------
(* Program constants *)

NumPits == 18
RowLen == 9
SeedsPerPit == 9
CanvasW == 700
CanvasH == 400
None == -1

----------------------------------------------------------------------------
(* ToguzBoard *)

\* ToguzBoard(): the dataclass defaults.
ToguzBoard ==
    [pits |-> [i \in 0..(NumPits - 1) |-> SeedsPerPit],
     kazans |-> <<0, 0>>,
     turn |-> 0]

\* range(lo, hi) as a sequence.
PyRange(lo, hi) == [k \in 1..(hi - lo) |-> lo + k - 1]

\* The elements of a list, as a set.
Elems(seq) == {seq[k] : k \in 1..Len(seq)}

\* Mutant: the nonempty pits of both rows, whoever is to move.
generate_legal_moves_both_rows(b) ==
    SelectSeq(PyRange(0, NumPits), LAMBDA i : b.pits[i] > 0)

generate_legal_moves(b) ==
    IF b.turn = 0
    THEN SelectSeq(PyRange(0, RowLen), LAMBDA i : b.pits[i] > 0)
    ELSE SelectSeq(PyRange(RowLen, NumPits), LAMBDA i : b.pits[i] > 0)

\* Mutant: the side to move is not changed.
apply_move_keep_turn(b, pit_index) ==
    [b EXCEPT !.pits[pit_index] = 0]

\* Mutant: the stones of the pit go to the store of the side that moved.
apply_move_to_kazan(b, pit_index) ==
    [b EXCEPT !.turn = (b.turn + 1) % 2,
              !.pits[pit_index] = 0,
              !.kazans[b.turn + 1] = @ + b.pits[pit_index]]

\* turn ^= 1 on a turn in {0, 1}; the pit is zeroed, nothing is sown.
apply_move(b, pit_index) ==
    [b EXCEPT !.turn = (b.turn + 1) % 2, !.pits[pit_index] = 0]

copy(b) == b

----------------------------------------------------------------------------
(* MoveRecord, MoveHistory *)

MoveRecord(ply, notation, board_snapshot) ==
    [ply |-> ply, notation |-> notation, board_snapshot |-> board_snapshot]

\* Mutant: the ply is taken 0-based.
add_zero_based(records, notation, board_snapshot) ==
    Append(records, MoveRecord(Len(records), notation, copy(board_snapshot)))

\* Mutant: the board is stored without a copy and moves change it in place,
\* so every entry shows the board of the latest one.
add_shared_board(records, notation, board_snapshot) ==
    Append([k \in 1..Len(records) |->
               [records[k] EXCEPT !.board_snapshot = board_snapshot]],
           MoveRecord(Len(records) + 1, notation, board_snapshot))

add(records, notation, board_snapshot) ==
    Append(records, MoveRecord(Len(records) + 1, notation, copy(board_snapshot)))

\* Python's list[i]: a negative i counts from the end; anything outside
\* -len .. len-1 raises IndexError.
PyIndexOK(seq, i) == (-Len(seq) <= i) /\ (i < Len(seq))
PyIndex(seq, i) == IF i >= 0 THEN seq[i + 1] ELSE seq[Len(seq) + i + 1]

\* Python's list[:k].
PySlicePrefix(seq, k) ==
    IF k >= 0
    THEN SubSeq(seq, 1, IF k < Len(seq) THEN k ELSE Len(seq))
    ELSE SubSeq(seq, 1, IF Len(seq) + k > 0 THEN Len(seq) + k ELSE 0)

\* The outcome of a call: the exception raised ("none" when it returns) and
\* the returned value, as a sequence of length 0 or 1.
Returned(v) == [raised |-> "none", value |-> <<v>>]
Raised(e) == [raised |-> e, value |-> <<>>]

\* Mutant: ply 0 is not treated apart and indexes _records[-1].
rewind_to_no_zero_case(records, ply) ==
    IF PyIndexOK(records, ply - 1)
    THEN Returned(copy(PyIndex(records, ply - 1).board_snapshot))
    ELSE Raised("IndexError")

rewind_to(records, ply) ==
    IF ply = 0
    THEN Returned(ToguzBoard)
    ELSE IF PyIndexOK(records, ply - 1)
         THEN Returned(copy(PyIndex(records, ply - 1).board_snapshot))
         ELSE Raised("IndexError")

as_table(records) ==
    [k \in 1..Len(records) |-> <<records[k].ply, records[k].notation>>]

----------------------------------------------------------------------------
(* GameUI: hit-testing *)

RECURSIVE GCD(_, _)
GCD(a, b) == IF b = 0 THEN a ELSE GCD(b, a % b)

\* pit_r = min(w / 18, h / 4) * 0.9 = min(4w, 18h) / 80.  The hit test
\* (x - cx)^2 + (y - cy)^2 <= pit_r^2 is evaluated exactly, in units of
\* 1/Scale with Scale = 80 / gcd(80, 40 * pit_r): in these units x, y, the
\* centres (2i+1) * pit_r and 1.5 * pit_r, and pit_r are all integers.
\* (The code computes in floats; on the 700 x 400 canvas pit_r is 35, cy is
\* 52.5 or 347.5, and no integer pointer position lies on a circle, so the
\* rounding cannot change an answer there.)
PitR80(w, h) == IF 4 * w <= 18 * h THEN 4 * w ELSE 18 * h
Unit(w, h) == GCD(80, PitR80(w, h) \div 2)
Scale(w, h) == 80 \div Unit(w, h)
PitR(w, h) == PitR80(w, h) \div Unit(w, h)
Rise(w, h) == 3 * ((PitR80(w, h) \div 2) \div Unit(w, h))

Sq(n) == n * n

\* The tests of the two loops at a pointer position (sx / Scale, sy / Scale):
\* x and y are numbers in the code, not only whole pixels.
\* Bottom row, loop index i: centre ((i + 0.5) * 2 * pit_r, pit_r * 1.5).
HitBottomAt(w, h, sx, sy, i) ==
    Sq(sx - (2 * i + 1) * PitR(w, h)) + Sq(sy - Rise(w, h)) <= Sq(PitR(w, h))

\* Mutant: the top row is laid out left to right like the bottom row.
HitTopAt_unmirrored(w, h, sx, sy, i) ==
    Sq(sx - (2 * i + 1) * PitR(w, h))
      + Sq(sy - (Scale(w, h) * h - Rise(w, h))) <= Sq(PitR(w, h))

\* Top row, loop index i: centre ((8 - i + 0.5) * 2 * pit_r, h - pit_r * 1.5).
HitTopAt(w, h, sx, sy, i) ==
    Sq(sx - (2 * (8 - i) + 1) * PitR(w, h))
      + Sq(sy - (Scale(w, h) * h - Rise(w, h))) <= Sq(PitR(w, h))

\* The same tests at a whole-pixel position (x, y).
HitBottom(w, h, x, y, i) ==
    HitBottomAt(w, h, Scale(w, h) * x, Scale(w, h) * y, i)

HitTop(w, h, x, y, i) ==
    HitTopAt(w, h, Scale(w, h) * x, Scale(w, h) * y, i)

\* The first loop index of a row that is hit (the loops return at once).
FirstHit(hits) == CHOOSE i \in hits : \A j \in hits : i <= j

_screen_to_pit_at(w, h, sx, sy) ==
    LET bottom == {i \in 0..(RowLen - 1) : HitBottomAt(w, h, sx, sy, i)}
        top == {i \in 0..(RowLen - 1) : HitTopAt(w, h, sx, sy, i)}
    IN  IF bottom # {} THEN FirstHit(bottom)
        ELSE IF top # {} THEN RowLen + FirstHit(top)
        ELSE None

_screen_to_pit(w, h, x, y) ==
    _screen_to_pit_at(w, h, Scale(w, h) * x, Scale(w, h) * y)

----------------------------------------------------------------------------
(* GameUI: move application.  A handler state st carries the fields a      *)
(* handler reads and writes: board_model, history (the _records list) and  *)
(* popup, set when sg.popup("Game over!") is shown.                        *)

move_str(pit_index, by_engine) ==
    <<IF by_engine THEN "AI" ELSE "P", pit_index + 1>>

_push_history(st, move_notation) ==
    [st EXCEPT !.history = add(st.history, move_notation, st.board_model)]

RECURSIVE _engine_move(_)

\* Mutant: an automated move is answered by another automated move.
_apply_move_chained(st, pit_index, by_engine) ==
    _engine_move(_push_history(
        [st EXCEPT !.board_model = apply_move(st.board_model, pit_index)],
        move_str(pit_index, by_engine)))

\* Mutant: the reply of the engine is not launched.
_apply_move_no_reply(st, pit_index, by_engine) ==
    _push_history([st EXCEPT !.board_model = apply_move(st.board_model, pit_index)],
                  move_str(pit_index, by_engine))

_apply_move(st, pit_index, by_engine) ==
    LET moved == [st EXCEPT !.board_model = apply_move(st.board_model, pit_index)]
        pushed == _push_history(moved, move_str(pit_index, by_engine))
    IN  IF ~by_engine THEN _engine_move(pushed) ELSE pushed

_engine_move(st) ==
    LET legal == generate_legal_moves(st.board_model)
    IN  IF legal = <<>>
        THEN [st EXCEPT !.popup = TRUE]
        ELSE _apply_move(st, legal[1], TRUE)

\* Mutant: any pit that is hit is played.
ClickAccepted_any_pit(b, pit) == pit # None

\* run(): "pit is not None and pit in self.board_model.generate_legal_moves()".
ClickAccepted(b, pit) ==
    pit # None /\ pit \in Elems(generate_legal_moves(b))

\* Mutant: the selected row itself is kept.
TrimHistory_keep_row(records, row_idx) == PySlicePrefix(records, row_idx + 1)

\* Mutant: the slice keeps the tail, _records[row_idx:].
TrimHistory_tail(records, row_idx) ==
    SubSeq(records, (IF row_idx < Len(records) THEN row_idx ELSE Len(records)) + 1,
           Len(records))

\* run(): "self.history._records = self.history._records[:row_idx]".
TrimHistory(records, row_idx) == PySlicePrefix(records, row_idx)

----------------------------------------------------------------------------
(* Pointer positions the environments click at *)

\* The leftmost columns of the board the exhaustive environment clicks in.
ClickCols == 2

\* How far below -len and above len direct rewind_to calls are probed.
ProbeMargin == 1

\* Pointer positions of the exhaustive environment: the centres of the pits
\* in the leftmost ClickCols columns (pits 0, 1, ... in the bottom row and
\* 17, 16, ... in the top row), off-centre inside pit 1, in the corner,
\* between the rows and between two neighbouring pits.
ClickPoints ==
    {<<35 + 70 * c, 52>> : c \in 0..(ClickCols - 1)}
      \cup {<<35 + 70 * c, 348>> : c \in 0..(ClickCols - 1)}
      \cup {<<120, 70>>, <<0, 0>>, <<350, 200>>, <<70, 90>>}

\* Pointer positions of the endgame environment: the centres of pits 4..8
\* and 13..17 and one position outside every pit.
EndgameClickPoints ==
    {<<35 + 70 * c, 52>> : c \in 4..8} \cup {<<35 + 70 * c, 348>> : c \in 0..4}
      \cup {<<0, 0>>}

AllClickPoints == ClickPoints \cup EndgameClickPoints

\* self._screen_to_pit(x, y) on the canvas, for each of these positions.
PitAt ==
    [p \in AllClickPoints |->
        _screen_to_pit(CanvasW, CanvasH, p[1], p[2])]

----------------------------------------------------------------------------
(* The event loop GameUI.run() *)

Handled(ev, arg, popup) == [ev |-> ev, arg |-> arg, popup |-> popup]
NoCall == [ply |-> 0, raised |-> "nocall", value |-> <<>>]

\* The loop runs until the window is closed or an exception escapes it.
\* A call of _screen_to_pit with the viewport (w, h) that get_size() returns:
\* kind "point" at the whole-pixel position at = <<x, y>>, kind "centre" at
\* the centre of the cell at = <<cell>>; pit is the result once done.
HitCall(kind, w, h, at) ==
    [kind |-> kind, w |-> w, h |-> h, at |-> at, pit |-> None, done |-> FALSE]

NoHit == HitCall("none", 0, 0, <<>>)

Running == last.ev \notin {"closed", "crashed"}

\* GameUI.__init__: a fresh board and an empty history.
Init ==
    /\ board_model = ToguzBoard
    /\ history = <<>>
    /\ last = Handled("init", None, FALSE)
    /\ ret = NoCall
    /\ hit = NoHit

\* event == "-BOARD-" with values["-BOARD-"] = (x, y).
BoardClick(x, y) ==
    /\ Running
    /\ LET pit == PitAt[<<x, y>>]
           st == [board_model |-> board_model, history |-> history, popup |-> FALSE]
       IN  IF ClickAccepted(board_model, pit)
           THEN LET done == _apply_move(st, pit, FALSE)
                IN  /\ board_model' = done.board_model
                    /\ history' = done.history
                    /\ last' = Handled("move", pit, done.popup)
           ELSE /\ UNCHANGED <<board_model, history>>
                /\ last' = Handled("reject", None, FALSE)
    /\ ret' = NoCall
    /\ UNCHANGED hit

\* Mutant: after a rewind to a position where side 1 is to move the engine
\* is asked for its move.
TableClick_engine_replies(row_idx) ==
    /\ Running
    /\ row_idx \in 0..(Len(as_table(history)) - 1)
    /\ LET r == rewind_to(history, row_idx)
       IN  IF r.raised = "none"
           THEN LET st == [board_model |-> r.value[1],
                           history |-> TrimHistory(history, row_idx),
                           popup |-> FALSE]
                    done == IF st.board_model.turn = 1 THEN _engine_move(st) ELSE st
                IN  /\ board_model' = done.board_model
                    /\ history' = done.history
                    /\ last' = Handled("table", row_idx, done.popup)
           ELSE /\ UNCHANGED <<board_model, history>>
                /\ last' = Handled("crashed", row_idx, FALSE)
    /\ ret' = NoCall
    /\ UNCHANGED hit

\* event == "-TABLE-" with values["-TABLE-"] = [row_idx, ...]: the index of a
\* selected row of the table, which shows as_table() of the history.
TableClick(row_idx) ==
    /\ Running
    /\ row_idx \in 0..(Len(as_table(history)) - 1)
    /\ LET r == rewind_to(history, row_idx)
       IN  IF r.raised = "none"
           THEN /\ board_model' = r.value[1]
                /\ history' = TrimHistory(history, row_idx)
                /\ last' = Handled("table", row_idx, FALSE)
           ELSE /\ UNCHANGED <<board_model, history>>
                /\ last' = Handled("crashed", row_idx, FALSE)
    /\ ret' = NoCall
    /\ UNCHANGED hit

\* event in (sg.WINDOW_CLOSED, "Exit"): break.
WindowClosed ==
    /\ Running
    /\ last' = Handled("closed", None, FALSE)
    /\ ret' = NoCall
    /\ UNCHANGED <<board_model, history, hit>>

\* A direct call history.rewind_to(ply) by a client of MoveHistory.
RewindToCall(ply) ==
    /\ Running
    /\ ret' = [ply |-> ply] @@ rewind_to(history, ply)
    /\ UNCHANGED <<board_model, history, last, hit>>

\* The centre at which _draw_board draws the circle of a cell, in units of
\* 1/Scale: ((cell + 0.5) * 2 * pit_r, pit_r * 1.5) for the bottom row,
\* ((8 - i + 0.5) * 2 * pit_r, h - pit_r * 1.5) for cell 9 + i of the top row.
CentreOf(w, h, cell) ==
    IF cell < RowLen
    THEN <<(2 * cell + 1) * PitR(w, h), Rise(w, h)>>
    ELSE <<(2 * (8 - (cell - RowLen)) + 1) * PitR(w, h),
           Scale(w, h) * h - Rise(w, h)>>

\* _screen_to_pit(x, y) called with the centre of a cell.
CentreLookup ==
    /\ hit.kind = "centre"
    /\ ~hit.done
    /\ LET c == CentreOf(hit.w, hit.h, hit.at[1])
       IN  hit' = [hit EXCEPT !.pit = _screen_to_pit_at(hit.w, hit.h, c[1], c[2]),
                              !.done = TRUE]
    /\ UNCHANGED <<board_model, history, last, ret>>

\* _screen_to_pit(x, y) called with a whole-pixel position.
PointLookup ==
    /\ hit.kind = "point"
    /\ ~hit.done
    /\ hit' = [hit EXCEPT !.pit = _screen_to_pit(hit.w, hit.h, hit.at[1], hit.at[2]),
                          !.done = TRUE]
    /\ UNCHANGED <<board_model, history, last, ret>>

----------------------------------------------------------------------------
(* Environments *)

\* Plies probed by direct rewind_to calls: from below -len to above len.
ProbePlies == (0 - Len(history) - ProbeMargin)..(Len(history) + ProbeMargin)

Next ==
    \/ \E p \in ClickPoints : BoardClick(p[1], p[2])
    \/ \E row_idx \in 0..(Len(history) - 1) : TableClick(row_idx)
    \/ WindowClosed
    \/ \E ply \in ProbePlies : RewindToCall(ply)

Spec == Init /\ [][Next]_vars

\* Rows 1, 9 and 10 of the table are the ones selected in the endgame
\* environment.
EndgameRows == {1, 9, 10}

NextEndgame ==
    \/ \E p \in EndgameClickPoints : BoardClick(p[1], p[2])
    \/ \E row_idx \in EndgameRows : TableClick(row_idx)

SpecEndgame == Init /\ [][NextEndgame]_vars

\* Hit-testing environment: the window is resizable, so the viewport is any
\* size up to MaxHitW x MaxHitH, or the canvas as created; the pointer is at
\* any whole pixel of a small viewport, or at a cell centre.
MaxHitW == 20
MaxHitH == 5

SmallViewports == (1..MaxHitW) \X (1..MaxHitH)

Viewports == SmallViewports \cup {<<CanvasW, CanvasH>>}

HitCalls ==
    {HitCall("centre", v[1], v[2], <<cell>>) :
        v \in Viewports, cell \in 0..(NumPits - 1)}
    \cup UNION {{HitCall("point", v[1], v[2], <<x, y>>) :
                    x \in 0..v[1], y \in 0..v[2]} : v \in SmallViewports}

InitHit ==
    /\ board_model = ToguzBoard
    /\ history = <<>>
    /\ last = Handled("init", None, FALSE)
    /\ ret = NoCall
    /\ hit \in HitCalls

NextHit ==
    \/ CentreLookup
    \/ PointLookup

SpecHit == InitHit /\ [][NextHit]_vars

----------------------------------------------------------------------------
(* Properties *)

RECURSIVE SumPits(_, _)
SumPits(pits, n) == IF n = 0 THEN 0 ELSE pits[n - 1] + SumPits(pits, n - 1)

\* sum(pits) + stores[0] + stores[1]
Seeds(b) == SumPits(b.pits, NumPits) + b.kazans[1] + b.kazans[2]

\* All 18 pits hold 9, both stores are 0, side 0 is to move.
IsCanonicalInitial(b) ==
    /\ DOMAIN b.pits = 0..17
    /\ \A i \in 0..17 : b.pits[i] = 9
    /\ b.kazans = <<0, 0>>
    /\ b.turn = 0

Tag(rec) == rec.notation[1]

\* C1: the current board and every snapshot in the history hold the seed
\* total of the canonical initial board, 18 x 9.
SeedConservation ==
    /\ Seeds(board_model) = 18 * 9
    /\ \A k \in 1..Len(history) : Seeds(history[k].board_snapshot) = 18 * 9

\* C2: selecting the table row that shows ply k leaves exactly k entries and
\* makes the current board the snapshot of entry k; the human move accepted
\* next after the selection is appended with ply k + 1.
RewindByRow ==
    [][/\ \A row_idx \in 0..(Len(history) - 1) :
            TableClick(row_idx) =>
                LET k == as_table(history)[row_idx + 1][1]
                IN  /\ Len(history') = k
                    /\ board_model' = history[k].board_snapshot
       /\ (last.ev = "table" /\ last'.ev = "move") =>
            LET k == last.arg + 1
            IN  \E j \in 1..Len(history') :
                    /\ history'[j].ply = k + 1
                    /\ Tag(history'[j]) = "P"
                    /\ j > Len(history)]_vars

\* C3: the i-th entry of the history (0-based) has ply i + 1.
PlyDensity ==
    \A i \in 0..(Len(history) - 1) : history[i + 1].ply = i + 1

\* A human move appended after a rewind that dropped an automated reply.
PlyDensityWitness ==
    /\ last.ev = "move"
    /\ Len(history) >= 4
    /\ Tag(history[1]) = "P"
    /\ Tag(history[2]) = "P"

\* C4: between events the current board is the canonical initial board when
\* the history is empty and the snapshot of the last entry otherwise.
LedgerAgreement ==
    IF history = <<>>
    THEN IsCanonicalInitial(board_model)
    ELSE board_model = history[Len(history)].board_snapshot

\* A rewind to a nonempty prefix of a longer history has been handled.
LedgerAgreementWitness ==
    /\ last.ev = "table"
    /\ Len(history) >= 2
    /\ ~IsCanonicalInitial(board_model)

\* C5: for every k in 0..length, trimming the history to k and calling
\* as_table() gives the (ply, notation) pairs of the first k entries, in order.
TruncationKeepsPrefix ==
    \A k \in 0..Len(history) :
        as_table(TrimHistory(history, k))
          = [i \in 1..k |-> <<history[i].ply, history[i].notation>>]

\* A table click has trimmed a history and entries remain to be trimmed.
TruncationKeepsPrefixWitness ==
    /\ last.ev = "table"
    /\ Len(history) >= 3
    /\ Len(as_table(history)) = last.arg

\* C6: rewind_to(0) returns the canonical initial board, whatever the history.
RewindToZeroIsInitial ==
    (ret.raised # "nocall" /\ ret.ply = 0) =>
        /\ ret.raised = "none"
        /\ Len(ret.value) = 1
        /\ IsCanonicalInitial(ret.value[1])

\* rewind_to(0) has been called on a history left by moves and a rewind.
RewindToZeroWitness ==
    /\ ret.raised = "none"
    /\ ret.ply = 0
    /\ last.ev = "table"
    /\ Len(history) >= 3

\* C7: rewind_to(ply) with ply negative or above the length of the history
\* raises, returns no board and leaves the history unchanged.
OutOfRangeRewindFails ==
    [][\A ply \in ProbePlies :
          ((ply < 0 \/ ply > Len(history)) /\ RewindToCall(ply)) =>
              /\ ret'.raised = "IndexError"
              /\ ret'.value = <<>>
              /\ history' = history]_vars

\* The pit hit is none, is empty, or lies in the row of the side not to move.
IllegalHit(b, pit) ==
    IF pit = None
    THEN TRUE
    ELSE \/ b.pits[pit] = 0
         \/ (pit \in 0..8 /\ b.turn # 0)
         \/ (pit \in 9..17 /\ b.turn # 1)

\* The step ends as every BoardClick step does: a move or a rejection is
\* recorded and no rewind_to call is pending.
ClickHandled == ret' = NoCall /\ last'.ev \in {"move", "reject"}

\* C8: a click that hits no cell or an illegal cell changes neither the
\* board nor the history and starts no automated move.
IllegalClickNoOp ==
    [][\A p \in ClickPoints :
          (ClickHandled /\ IllegalHit(board_model, PitAt[p]) /\ BoardClick(p[1], p[2])) =>
              /\ UNCHANGED <<board_model, history>>
              /\ last'.ev = "reject"
              /\ ~last'.popup]_vars

\* An illegal click has been handled in a game with moves played.
IllegalClickNoOpWitness ==
    /\ last.ev = "reject"
    /\ Len(history) >= 2

\* Some pit in the row of the side to move is nonempty.
HasReplies(b) ==
    \E i \in (IF b.turn = 0 THEN 0..8 ELSE 9..17) : b.pits[i] > 0

\* C9: a click on a legal cell p with n entries in the history appends one
\* human entry with ply n + 1 and move p; the automated reply follows as ply
\* n + 2 when the position after the human move has legal replies, and
\* nothing follows otherwise.
HumanMoveStep ==
    [][\A p \in EndgameClickPoints :
          (ClickHandled /\ ~IllegalHit(board_model, PitAt[p]) /\ BoardClick(p[1], p[2])) =>
              LET n == Len(history)
              IN  /\ Len(history') > n
                  /\ SubSeq(history', 1, n) = history
                  /\ history'[n + 1].ply = n + 1
                  /\ history'[n + 1].notation = <<"P", PitAt[p] + 1>>
                  /\ \A j \in (n + 2)..Len(history') : Tag(history'[j]) # "P"
                  /\ IF HasReplies(history'[n + 1].board_snapshot)
                     THEN /\ Len(history') = n + 2
                          /\ history'[n + 2].ply = n + 2
                          /\ Tag(history'[n + 2]) = "AI"
                     ELSE Len(history') = n + 1]_vars

\* A human move and its automated reply have been appended to a history
\* that held entries already.
HumanMoveStepWitness ==
    /\ last.ev = "move"
    /\ Len(history) >= 4
    /\ Tag(history[Len(history) - 1]) = "P"
    /\ history[Len(history) - 1].notation[2] = last.arg + 1
    /\ Tag(history[Len(history)]) = "AI"

\* C10: once the side to move has no legal move, every click and every
\* invocation of the automated move ends in the terminal notice and leaves
\* the history and the board unchanged; only a rewind leaves that position.
TerminalRejectsMoves ==
    [][~HasReplies(board_model) =>
          /\ \A p \in EndgameClickPoints :
                BoardClick(p[1], p[2]) =>
                    /\ UNCHANGED <<board_model, history>>
                    /\ last'.popup
          /\ LET st == [board_model |-> board_model, history |-> history,
                        popup |-> FALSE]
             IN  /\ _engine_move(st).popup
                 /\ _engine_move(st).board_model = board_model
                 /\ _engine_move(st).history = history
          /\ HasReplies(board_model') => last'.ev = "table"]_vars

\* C10, without the notice: in such a position clicks and invocations of the
\* automated move change neither the board nor the history, and only a
\* table click leaves it.
TerminalKeepsPosition ==
    [][~HasReplies(board_model) =>
          /\ \A p \in EndgameClickPoints :
                BoardClick(p[1], p[2]) => UNCHANGED <<board_model, history>>
          /\ LET st == [board_model |-> board_model, history |-> history,
                        popup |-> FALSE]
             IN  /\ _engine_move(st).board_model = board_model
                 /\ _engine_move(st).history = history
          /\ HasReplies(board_model') => last'.ev = "table"]_vars

\* A position without legal moves has been reached and clicked at.
TerminalReached ==
    /\ ~HasReplies(board_model)
    /\ last.ev = "reject"

\* C11: whenever a move leaves the side to move without legal moves, be it
\* the human's move or the automated one, the game-over notice is issued by
\* the handler of that move.
GameOverSurfaced ==
    (last.ev = "move" /\ ~HasReplies(board_model)) => last.popup

\* The pit a ledger entry names: notation "P:<pit + 1>" / "AI:<pit + 1>".
PitOf(rec) == rec.notation[2] - 1

\* The position after the first k entries of a ledger.
PositionAfter(records, k) ==
    IF k = 0 THEN ToguzBoard ELSE records[k].board_snapshot

\* C12: a table selection appends nothing: it leaves a prefix of the history
\* and its position on the board.  The board then stays as it is until an
\* entry is appended, and the first entry appended is a human one, the move
\* applied to that board; every automated entry is the move applied to the
\* board the preceding entry left.
RewindHandsControl ==
    [][LET n == Len(history)
           m == Len(history')
       IN  /\ (ret' = NoCall /\ last'.ev = "table") =>
                  /\ m < n
                  /\ history' = SubSeq(history, 1, m)
                  /\ board_model' = PositionAfter(history, m)
           /\ (m = n /\ last'.ev # "table") => board_model' = board_model
           /\ m > n =>
                  /\ Tag(history'[n + 1]) = "P"
                  /\ history'[n + 1].board_snapshot
                        = apply_move(board_model, PitOf(history'[n + 1]))
                  /\ \A j \in (n + 2)..m :
                        /\ Tag(history'[j]) = "AI"
                        /\ history'[j].board_snapshot
                              = apply_move(history'[j - 1].board_snapshot,
                                           PitOf(history'[j]))
                  /\ board_model' = history'[m].board_snapshot]_vars

\* A human move has been played from a position a table selection rewound
\* to: the entry before it is the human entry the selection kept.
RewindHandsControlWitness ==
    /\ last.ev = "move"
    /\ Len(history) = 3
    /\ Tag(history[1]) = "P"
    /\ Tag(history[2]) = "P"
    /\ Tag(history[3]) = "AI"
    /\ board_model = history[3].board_snapshot

\* C13: for every viewport and every cell i of 0..17, _screen_to_pit called
\* with the centre of cell i returns i.
CentreRoundTrip ==
    (hit.kind = "centre" /\ hit.done) => hit.pit = hit.at[1]

\* The centre of a top-row cell has been looked up in a viewport whose
\* height sets the radius (h / 4 < w / 18), where the two rows are closest.
CentreRoundTripWitness ==
    /\ hit.kind = "centre"
    /\ hit.done
    /\ hit.at[1] >= RowLen
    /\ hit.pit = hit.at[1]
    /\ 18 * hit.h < 4 * hit.w

\* The cells whose test (x - cx)^2 + (y - cy)^2 <= pit_r^2 holds at (x, y).
HitCells(w, h, x, y) ==
    {i \in 0..(RowLen - 1) : HitBottom(w, h, x, y, i)}
    \cup {RowLen + i : i \in {j \in 0..(RowLen - 1) : HitTop(w, h, x, y, j)}}

\* C14: for every viewport and every pointer position at most one of the 18
\* cells satisfies the hit test.
HitUnique ==
    (hit.kind = "point" /\ hit.done) =>
        Cardinality(HitCells(hit.w, hit.h, hit.at[1], hit.at[2])) <= 1

\* The row of the side to move: range(9) or range(9, 18).
RowToMove(b) == IF b.turn = 0 THEN 0..(RowLen - 1) ELSE RowLen..(NumPits - 1)

\* C15: generate_legal_moves returns exactly the nonempty pits of the row of
\* the side to move, in ascending order; on a fresh board that is 0..8; the
\* list is empty exactly when every pit of that row is empty.
LegalMovesEnumerated ==
    LET legal == generate_legal_moves(board_model)
    IN  /\ Elems(legal) = {i \in RowToMove(board_model) : board_model.pits[i] # 0}
        /\ \A j \in 1..(Len(legal) - 1) : legal[j] < legal[j + 1]
        /\ generate_legal_moves(ToguzBoard) = <<0, 1, 2, 3, 4, 5, 6, 7, 8>>
        /\ (legal = <<>>) <=> (\A i \in RowToMove(board_model) : board_model.pits[i] = 0)

\* The enumeration is empty: after 18 plies side 0 is to move and its row is
\* empty.
LegalMovesEnumeratedWitness ==
    /\ generate_legal_moves(board_model) = <<>>
    /\ board_model.turn = 0
    /\ \A i \in 0..(RowLen - 1) : board_model.pits[i] = 0

\* C16: an accepted move changes the history only by appending at its end,
\* and no step (move, table selection or call) alters the ply, the notation
\* or the snapshot of an entry that stays in the history.
MovesOnlyAppend ==
    [][/\ (ClickHandled /\ last'.ev = "move") =>
             /\ Len(history') > Len(history)
             /\ SubSeq(history', 1, Len(history)) = history
       /\ \A k \in 1..Len(history) :
             k <= Len(history') => history'[k] = history[k]]_vars

\* A move has been appended to a history that held the entries of earlier
\* moves, each still showing the board its own move left.
MovesOnlyAppendWitness ==
    /\ last.ev = "move"
    /\ Len(history) >= 4
    /\ \A k \in 1..Len(history) :
          history[k].board_snapshot
            = apply_move(PositionAfter(history, k - 1), PitOf(history[k]))

\* C17: every "P" entry is a bottom-row pit played with side 0 to move,
\* every "AI" entry a top-row pit played with side 1 to move, and the tags
\* alternate P, AI, P, AI, ... by ply.
TagSideConsistency ==
    \A k \in 1..Len(history) :
        /\ Tag(history[k]) = "P" =>
              /\ PitOf(history[k]) \in 0..(RowLen - 1)
              /\ PositionAfter(history, k - 1).turn = 0
        /\ Tag(history[k]) = "AI" =>
              /\ PitOf(history[k]) \in RowLen..(NumPits - 1)
              /\ PositionAfter(history, k - 1).turn = 1
        /\ Tag(history[k]) = (IF k % 2 = 1 THEN "P" ELSE "AI")

\* C18: the side to move is the parity of the number of entries, and the
\* snapshot of ply p has side p mod 2 to move.
TurnParity ==
    /\ board_model.turn = Len(history) % 2
    /\ \A p \in 1..Len(history) :
          /\ history[p].ply = p
          /\ history[p].board_snapshot.turn = p % 2

\* A table selection has rewound the game to an odd number of entries: side
\* 1 is to move.
TurnParityWitness ==
    /\ last.ev = "table"
    /\ Len(history) % 2 = 1
    /\ board_model.turn = 1

\* C19: every pit holds 0 or 9, both kazans are 0, the number of empty pits
\* is the number of entries of the history, and the history never has more
\* than 18 entries.
PitsAndHistory ==
    /\ \A i \in 0..(NumPits - 1) : board_model.pits[i] \in {0, SeedsPerPit}
    /\ board_model.kazans = <<0, 0>>
    /\ Cardinality({i \in 0..(NumPits - 1) : board_model.pits[i] = 0}) = Len(history)
    /\ Len(history) <= NumPits

\* All 18 pits have been emptied by 18 entries.
PitsAndHistoryWitness ==
    /\ Len(history) = NumPits
    /\ Seeds(board_model) = 0

\* C20: the handler of one click appends at most two entries.  Every accepted
\* click appends at least one, while the side to move has a legal move some
\* cell is accepted, the history never exceeds 18 entries, and the side to
\* move has no legal move exactly when it holds 18: a run of accepted clicks
\* without table selections ends in such a position after at most 18 plies.
ClicksTerminate ==
    /\ [][ClickHandled =>
             /\ Len(history') <= Len(history) + 2
             /\ last'.ev = "move" => Len(history') > Len(history)]_vars
    /\ [](/\ Len(history) <= NumPits
          /\ HasReplies(board_model) <=> Len(history) < NumPits
          /\ HasReplies(board_model) =>
                \E i \in RowToMove(board_model) : ClickAccepted(board_model, i))

\* A run of clicks has ended with 18 entries and no legal move, the last
\* click having appended two entries.
ClicksTerminateWitness ==
    /\ last.ev = "move"
    /\ ~last.popup
    /\ Len(history) = NumPits
    /\ ~HasReplies(board_model)

====
